---- MODULE Spec2Model ----
(***************************************************************************)
(* Model of src/api.py (SpecBuddy API): the process-wide session store,    *)
(* the /chat, /sales_trainer and /reset handlers and the helpers they      *)
(* call.  FastAPI runs the plain `def` handlers on a thread pool, so the   *)
(* handlers of several requests run interleaved; every statement that      *)
(* reads or writes the shared store or a shared memory object is one step. *)
(***************************************************************************)
EXTENDS Integers, Sequences, FiniteSets, TLC

\* ------------------------------------------------------------------ bounds
\* Number of requests (of any kind) the server receives in one run.
MaxReq == 3

\* ------------------------------------------------------------ input domains
\* Worker threads of the pool.
Threads == {1, 2, 3}
\* The workers of the runs with two workers.
Pool == {1, 2}
SessionIds == {"s1", "s2"}
Endpoints == {"chat", "sales_trainer"}

\* Request messages, as sequences of characters: one that is "done" up to
\* case and surrounding whitespace, one that only contains it.
Messages ==
  { <<" ", "D", "o", "N", "E", "\n">>,
    <<"n", "o", "t", " ", "d", "o", "n", "e">> }

\* More request messages, for the runs of a single client.
AllMessages ==
  Messages \cup
  { <<"d", "o", "n", "e">>,
    <<"D", "O", "N", "E">>,
    <<"\t", "d", "o", "n", "e", " ", " ">>,
    <<"d", "o", "n", "e", "!">>,
    <<"d", "o", " ", "n", "e">>,
    <<"d", "o", "n">>,
    <<" ">>,
    <<>> }

\* Texts the LLM may complete a collection prompt with.
ReplyTexts == { <<" ", "A", "\n">> }

\* Texts the LLM may complete a summary prompt with.
SummaryTexts ==
  { <<"S", "<END_OF_SPECS>", "<FOLLOW_UP>", "Q", "\n">>,
    <<" ", "S">> }

\* Texts the LLM may complete the image-query prompt with.
QueryTexts == { <<" ", "\"", "q", "\"", " ">> }

\* What the Unsplash search can do (fetch_image, lines 58-74): no access key;
\* an exception (transport failure, non-2xx status at raise_for_status,
\* malformed payload); an empty result list; a result.
ImageOutcomes ==
  {"no_credential", "exception", "zero_results", "ok"}

\* line 22: the token the summary prompt asks the LLM to put after the summary
SUMMARY_END_TOKEN == "<END_OF_SPECS>"

ImageUrl == <<"u", "r", "l">>
None == <<"None">>

\* ------------------------------------------------------------------- state
VARIABLES
  sessions,     \* the global dict: session id -> memory object (a heap index)
  heap,         \* the ConversationBufferMemory objects ever made: their messages
  pc,           \* per handler thread: the statement it is at
  req,          \* per thread: the request it serves (id, endpoint, session_id, message)
  memory,       \* per thread: the local `memory` (a heap index, 0 before it is set)
  reply,        \* per thread: the local `reply`
  sent,         \* the response the last step sent, with the request it answers
  arrivals,     \* the requests received so far, in arrival order
  deleted       \* the memories whose store entry a reset deleted, with the
                \* request id of that reset

vars ==
  <<sessions, heap, pc, req, memory, reply, sent, arrivals, deleted>>

\* ------------------------------------------------------------ pure helpers
Whitespace == {" ", "\t", "\n", "\r"}

RECURSIVE LStrip(_)
LStrip(s) ==
  IF s # <<>> /\ Head(s) \in Whitespace THEN LStrip(Tail(s)) ELSE s

RECURSIVE RStrip(_)
RStrip(s) ==
  IF s # <<>> /\ s[Len(s)] \in Whitespace
  THEN RStrip(SubSeq(s, 1, Len(s) - 1))
  ELSE s

\* str.strip()
Strip(s) == RStrip(LStrip(s))

LowerChar(c) ==
  CASE c = "D" -> "d"
    [] c = "O" -> "o"
    [] c = "N" -> "n"
    [] c = "E" -> "e"
    [] OTHER -> c

\* str.lower()
Lower(s) == [i \in 1..Len(s) |-> LowerChar(s[i])]

RECURSIVE LStripQuote(_)
LStripQuote(s) ==
  IF s # <<>> /\ Head(s) = "\"" THEN LStripQuote(Tail(s)) ELSE s

RECURSIVE RStripQuote(_)
RStripQuote(s) ==
  IF s # <<>> /\ s[Len(s)] = "\""
  THEN RStripQuote(SubSeq(s, 1, Len(s) - 1))
  ELSE s

\* str.strip('"')
StripQuote(s) == RStripQuote(LStripQuote(s))

\* A variant of the test that looks for "done" anywhere in the message:
\* "done" in message.lower()
IsDoneContains(message) ==
  \E i \in 1..Len(message) :
    /\ i + 3 <= Len(message)
    /\ SubSeq(Lower(message), i, i + 3) = <<"d", "o", "n", "e">>

\* The test of lines 145 and 185: message.strip().lower() == "done"
IsDone(message) == Lower(Strip(message)) = <<"d", "o", "n", "e">>

\* HumanMessage(content=...) / AIMessage(content=...); `req` is the identity
\* of the request that made the object.
HumanMessage(content, r) == [role |-> "user", content |-> content, req |-> r]
AIMessage(content, r) == [role |-> "assistant", content |-> content, req |-> r]

\* chat_memory.add_message: list.append
AddMessage(messages, m) == Append(messages, m)

\* dict operations on the store
Has(d, k) == k \in DOMAIN d
\* A variant of the store of line 130 that keeps the newest entry only.
SetItemEvictsOthers(d, k, v) == [x \in {k} |-> v]
SetItem(d, k, v) == [x \in DOMAIN d \cup {k} |-> IF x = k THEN v ELSE d[x]]
\* A variant of del that leaves the entry in place.
DelItemKeeps(d, k) == d
\* A variant of line 249 that empties the dict.
DelItemClearsAll(d, k) == [x \in {} |-> 0]
DelItem(d, k) == [x \in DOMAIN d \ {k} |-> d[x]]

\* A variant of fetch_image without the try/except of lines 63-73.
fetch_image_uncaught(outcome) ==
  [raised |-> outcome = "exception",
   value |-> IF outcome = "ok" THEN ImageUrl ELSE None]

\* fetch_image: without a credential it returns None (lines 59-61); an
\* exception of the request, of raise_for_status or of the payload access is
\* caught (lines 63-73) and None is returned (line 74); an empty result list
\* falls through to line 74.  `raised` says whether an exception leaves it.
fetch_image(outcome) ==
  [raised |-> FALSE, value |-> IF outcome = "ok" THEN ImageUrl ELSE None]

\* ---------------------------------------------------------------- responses
NoRequest == [id |-> 0, endpoint |-> "none", session_id |-> "none", message |-> <<>>]
NoResponse == [status |-> 0, body |-> [text |-> "none"], cause |-> "none"]
\* An exception that leaves the handler: Starlette answers 500 with a plain text.
ServerError(cause) ==
  [status |-> 500, body |-> [text |-> "Internal Server Error"], cause |-> cause]
Ok(body) == [status |-> 200, body |-> body, cause |-> "none"]

\* No response was sent by the last step.
NoSent == [req |-> NoRequest, response |-> NoResponse]

Init ==
  /\ sessions = [x \in {} |-> 0]
  /\ heap = <<>>
  /\ pc = [t \in Threads |-> "idle"]
  /\ req = [t \in Threads |-> NoRequest]
  /\ memory = [t \in Threads |-> 0]
  /\ reply = [t \in Threads |-> <<>>]
  /\ sent = NoSent
  /\ arrivals = <<>>
  /\ deleted = {}

\* ------------------------------------------------------------------ requests
Busy(t) == pc[t] # "idle"

\* The pool hands a request to an idle worker; which idle worker is of no
\* consequence, so the first one takes it.
Picks(t) == ~Busy(t) /\ \A u \in Threads : u < t => Busy(u)

\* Worker t starts the handler of request r at statement `at`.
Start(t, r, at) ==
  /\ Picks(t)
  /\ Len(arrivals) < MaxReq
  /\ req' = [req EXCEPT ![t] = r]
  /\ arrivals' = Append(arrivals,
       [session_id |-> r.session_id,
        kind |-> IF r.endpoint = "reset" THEN "reset" ELSE "message"])
  /\ pc' = [pc EXCEPT ![t] = at]
  /\ sent' = NoSent
  /\ UNCHANGED <<sessions, heap, memory, reply, deleted>>

\* POST /chat or /sales_trainer with {message, session_id}
Receive(t, ep, s, m) ==
  Start(t, [id |-> Len(arrivals) + 1, endpoint |-> ep, session_id |-> s,
            message |-> m], "get_session_check")

\* POST /reset with {session_id}
ReceiveReset(t, s) ==
  Start(t, [id |-> Len(arrivals) + 1, endpoint |-> "reset", session_id |-> s,
            message |-> <<>>], "reset_check")

\* The handler of worker t ends and `resp` is sent; its locals die with it.
Finish(t, resp) ==
  /\ sent' = [req |-> req[t], response |-> resp]
  /\ pc' = [pc EXCEPT ![t] = "idle"]
  /\ req' = [req EXCEPT ![t] = NoRequest]
  /\ memory' = [memory EXCEPT ![t] = 0]
  /\ reply' = [reply EXCEPT ![t] = <<>>]

\* The handler of worker t goes on to statement `at`.
Goto(t, at) ==
  /\ pc' = [pc EXCEPT ![t] = at]
  /\ sent' = NoSent
  /\ UNCHANGED req

\* --------------------------------------------------------------- get_session
\* A variant of get_session without the test of line 129: every call makes
\* a new memory.
GetSessionCheckAlwaysCreates(t) ==
  /\ pc[t] = "get_session_check"
  /\ Goto(t, "get_session_create")
  /\ UNCHANGED <<sessions, heap, memory, reply, arrivals, deleted>>

\* line 129: if session_id not in sessions
GetSessionCheck(t) ==
  /\ pc[t] = "get_session_check"
  /\ Goto(t, IF Has(sessions, req[t].session_id)
             THEN "get_session_return" ELSE "get_session_create")
  /\ UNCHANGED <<sessions, heap, memory, reply, arrivals, deleted>>

\* line 130: sessions[session_id] = {"memory": ConversationBufferMemory(...)}
GetSessionCreate(t) ==
  /\ pc[t] = "get_session_create"
  /\ heap' = Append(heap, <<>>)
  /\ sessions' = SetItem(sessions, req[t].session_id, Len(heap) + 1)
  /\ Goto(t, "get_session_return")
  /\ UNCHANGED <<memory, reply, arrivals, deleted>>

\* A variant of lines 177-178 in which /sales_trainer takes a memory of its
\* own instead of the one the store has for the id.
GetSessionReturnOwnMemory(t) ==
  /\ pc[t] = "get_session_return"
  /\ IF req[t].endpoint = "sales_trainer"
     THEN /\ heap' = Append(heap, <<>>)
          /\ memory' = [memory EXCEPT ![t] = Len(heap) + 1]
          /\ Goto(t, "add_user_message")
          /\ UNCHANGED reply
     ELSE /\ IF Has(sessions, req[t].session_id)
             THEN /\ memory' = [memory EXCEPT ![t] = sessions[req[t].session_id]]
                  /\ Goto(t, "add_user_message")
                  /\ UNCHANGED reply
             ELSE Finish(t, ServerError("KeyError"))
          /\ UNCHANGED heap
  /\ UNCHANGED <<sessions, arrivals, deleted>>

\* lines 131 and 137-138: return sessions[session_id]; memory = session["memory"]
GetSessionReturn(t) ==
  /\ pc[t] = "get_session_return"
  /\ IF Has(sessions, req[t].session_id)
     THEN /\ memory' = [memory EXCEPT ![t] = sessions[req[t].session_id]]
          /\ Goto(t, "add_user_message")
          /\ UNCHANGED reply
     ELSE Finish(t, ServerError("KeyError"))
  /\ UNCHANGED <<sessions, heap, arrivals, deleted>>

\* ------------------------------------------------- /chat and /sales_trainer
\* A variant of lines 141-145 with a stored mode: once the history holds a
\* "done" turn, every later message goes to the summary call.
AddUserMessageStaysFinalized(t) ==
  /\ pc[t] = "add_user_message"
  /\ heap' = [heap EXCEPT ![memory[t]] =
       AddMessage(@, HumanMessage(req[t].message, req[t].id))]
  /\ Goto(t, IF \E i \in 1..Len(heap'[memory[t]]) :
                  /\ heap'[memory[t]][i].role = "user"
                  /\ IsDone(heap'[memory[t]][i].content)
             THEN "invoke_summary" ELSE "invoke_convo")
  /\ UNCHANGED <<sessions, memory, reply, arrivals, deleted>>

\* lines 141-145 and 181-185: record the user message, take `history` (the
\* memory's own message list, not a copy) and branch on the message.
AddUserMessage(t) ==
  /\ pc[t] = "add_user_message"
  /\ heap' = [heap EXCEPT ![memory[t]] =
       AddMessage(@, HumanMessage(req[t].message, req[t].id))]
  /\ Goto(t, IF IsDone(req[t].message) THEN "invoke_summary" ELSE "invoke_convo")
  /\ UNCHANGED <<sessions, memory, reply, arrivals, deleted>>

\* The history a handler at an LLM call renders into its prompt: `history`
\* is the memory's message list itself, read when the chain is invoked
\* (lines 109, 166, 207-210, 237).
PromptHistory(t) == heap[memory[t]]

\* A variant of the collection call that takes the user turn back when the
\* LLM raises.
InvokeConvoRollsBack(t) ==
  /\ pc[t] = "invoke_convo"
  /\ \/ \E text \in ReplyTexts :
          /\ reply' = [reply EXCEPT ![t] = text]
          /\ Goto(t, "add_reply")
          /\ UNCHANGED <<memory, heap>>
     \/ /\ Finish(t, ServerError("llm"))
        /\ heap' = [heap EXCEPT ![memory[t]] = SubSeq(@, 1, Len(@) - 1)]
  /\ UNCHANGED <<sessions, arrivals, deleted>>

\* lines 156-166 and 214-237: render the collection prompt from `history`
\* and the message and call the LLM, which answers or raises.
InvokeConvo(t) ==
  /\ pc[t] = "invoke_convo"
  /\ \/ \E text \in ReplyTexts :
          /\ reply' = [reply EXCEPT ![t] = text]
          /\ Goto(t, "add_reply")
          /\ UNCHANGED memory
     \/ Finish(t, ServerError("llm"))
  /\ UNCHANGED <<sessions, heap, arrivals, deleted>>

\* lines 169-171 and 240-242: save the assistant reply and return it.
AddReply(t) ==
  /\ pc[t] = "add_reply"
  /\ heap' = [heap EXCEPT ![memory[t]] =
       AddMessage(@, AIMessage(reply[t], req[t].id))]
  /\ Finish(t, Ok([reply |-> reply[t]]))
  /\ UNCHANGED <<sessions, arrivals, deleted>>

\* lines 146-153 and 186-211: render the summary prompt from str(history)
\* and call the LLM (generate_summary_with_llm, 77-110); the text is
\* stripped.  /sales_trainer returns it at once (line 211).  /chat asks the
\* LLM for an image query (line 147, generate_image_query_with_llm,
\* 112-120), searches the image (line 148) and returns the three (149-153).
\* Either LLM call answers or raises.  `cause` keeps what the image search did.
Finalize(t) ==
  /\ pc[t] = "invoke_summary"
  /\ \/ Finish(t, ServerError("llm"))
     \/ \E text \in SummaryTexts :
          LET summary == Strip(text) IN
          IF req[t].endpoint = "sales_trainer"
          THEN Finish(t, Ok([reply |-> summary]))
          ELSE \/ Finish(t, ServerError("llm"))
               \/ \E q \in QueryTexts, outcome \in ImageOutcomes :
                    LET image_query == StripQuote(Strip(q))
                        image == fetch_image(outcome)
                    IN  IF image.raised
                        THEN Finish(t, ServerError(outcome))
                        ELSE Finish(t,
                               [Ok([reply |-> summary,
                                    image_query |-> image_query,
                                    image_url |-> image.value])
                                EXCEPT !.cause = outcome])
  /\ UNCHANGED <<sessions, heap, arrivals, deleted>>

\* -------------------------------------------------------------------- /reset
Status(s) == [status |-> <<"Conversation reset for ", s>>]

\* A variant of /reset without the test of line 248.
ResetCheckNoTest(t) ==
  /\ pc[t] = "reset_check"
  /\ Goto(t, "reset_delete")
  /\ UNCHANGED <<sessions, heap, memory, reply, arrivals, deleted>>

\* line 248: if session_id in sessions; line 250 when it is not
ResetCheck(t) ==
  /\ pc[t] = "reset_check"
  /\ IF Has(sessions, req[t].session_id)
     THEN /\ Goto(t, "reset_delete")
          /\ UNCHANGED <<memory, reply>>
     ELSE Finish(t, Ok(Status(req[t].session_id)))
  /\ UNCHANGED <<sessions, heap, arrivals, deleted>>

\* lines 249-250: del sessions[session_id]; return the status.
\* `cause` keeps that an entry was deleted.
ResetDelete(t) ==
  /\ pc[t] = "reset_delete"
  /\ IF Has(sessions, req[t].session_id)
     THEN /\ sessions' = DelItem(sessions, req[t].session_id)
          /\ deleted' = deleted \cup {[memory |-> sessions[req[t].session_id],
                                       reset |-> req[t].id]}
          /\ Finish(t, [Ok(Status(req[t].session_id)) EXCEPT !.cause = "deleted"])
     ELSE /\ Finish(t, ServerError("KeyError"))
          /\ UNCHANGED <<sessions, deleted>>
  /\ UNCHANGED <<heap, arrivals>>

\* ------------------------------------------------------------ specifications
Step(t) ==
  \/ GetSessionCheck(t)
  \/ GetSessionCreate(t)
  \/ GetSessionReturn(t)
  \/ AddUserMessage(t)
  \/ InvokeConvo(t)
  \/ AddReply(t)
  \/ Finalize(t)
  \/ ResetCheck(t)
  \/ ResetDelete(t)

\* The thread pool serves requests concurrently.
Next ==
  \E t \in Pool :
    \/ \E ep \in Endpoints, s \in SessionIds, m \in Messages : Receive(t, ep, s, m)
    \/ \E s \in SessionIds : ReceiveReset(t, s)
    \/ Step(t)

Spec == Init /\ [][Next]_vars

\* No request for session id s is being served.
Quiet(s) == \A t \in Threads : Busy(t) => req[t].session_id # s

\* The requests for one session id come one after the other (a client that
\* waits for each response); requests for different ids still interleave.
SeqReceive(t, ep, s, m) == Quiet(s) /\ Receive(t, ep, s, m)
SeqReceiveReset(t, s) == Quiet(s) /\ ReceiveReset(t, s)

SeqNext ==
  \E t \in Pool :
    \/ \E ep \in Endpoints, s \in SessionIds, m \in Messages : SeqReceive(t, ep, s, m)
    \/ \E s \in SessionIds : SeqReceiveReset(t, s)
    \/ Step(t)

SeqSpec == Init /\ [][SeqNext]_vars

\* A single client on one session id and one worker, with every message form.
SoloReceive(ep, m) == Receive(1, ep, "s1", m)
SoloReceiveReset == ReceiveReset(1, "s1")

SoloNext ==
  \/ \E ep \in Endpoints, m \in AllMessages : SoloReceive(ep, m)
  \/ SoloReceiveReset
  \/ Step(1)

SoloSpec == Init /\ [][SoloNext]_vars

\* Three workers serve the /chat and /reset requests of one session id
\* concurrently.
RaceNext ==
  \E t \in Threads :
    \/ \E m \in Messages : Receive(t, "chat", "s1", m)
    \/ ReceiveReset(t, "s1")
    \/ Step(t)

RaceSpec == Init /\ [][RaceNext]_vars

\* The number of messages among the first i requests received.
MessageNumber(i) == Cardinality({j \in 1..i : arrivals[j].kind = "message"})

\* A client that takes turns with the two endpoints: its odd messages go to
\* /chat, its even ones to /sales_trainer.
EndpointOf(n) == IF n % 2 = 1 THEN "chat" ELSE "sales_trainer"

\* One client on one session id and one worker, alternating the endpoints.
CrossReceive(m) ==
  Receive(1, EndpointOf(MessageNumber(Len(arrivals)) + 1), "s1", m)

CrossNext ==
  \/ \E m \in Messages : CrossReceive(m)
  \/ ReceiveReset(1, "s1")
  \/ Step(1)

CrossSpec == Init /\ [][CrossNext]_vars

\* -------------------------------------------------------- derived notions
\* The history the store holds for session id s (empty when s has no entry).
Stored(s) == IF Has(sessions, s) THEN heap[sessions[s]] ELSE <<>>

IsPrefix(a, b) == Len(a) <= Len(b) /\ SubSeq(b, 1, Len(a)) = a

\* Worker t is at an LLM call of a /chat or /sales_trainer handler.
AtLlmCall(t) == pc[t] \in {"invoke_convo", "invoke_summary"}

\* This step is taken by the /reset handler of session id s.
ResetStep(s) ==
  \E t \in Threads :
    /\ req[t].endpoint = "reset"
    /\ req[t].session_id = s
    /\ pc'[t] # pc[t]

\* This step ends the handler of worker t.
Ends(t) == Busy(t) /\ pc'[t] = "idle"

\* The arrival, before request r, of the last reset of session id s (0: none).
LastReset(s, r) ==
  LET resets == {i \in 1..(r - 1) :
                   arrivals[i] = [session_id |-> s, kind |-> "reset"]}
  IN  IF resets = {} THEN 0 ELSE CHOOSE i \in resets : \A j \in resets : j <= i

\* The messages for session id s that arrived after request `from` and before r.
MessagesBetween(s, from, r) ==
  {i \in (from + 1)..(r - 1) :
     arrivals[i] = [session_id |-> s, kind |-> "message"]}

\* ----------------------------------------------------------------- C1
\* C1: for every session id, in a sequence of /chat and /sales_trainer
\* requests on it, a step that is not a step of a reset of that id leaves the
\* stored history a prefix of the stored history after the step: no earlier
\* turn is removed, replaced or reordered.
C1_HistoryOnlyGrows ==
  [][\A s \in SessionIds : ~ResetStep(s) => IsPrefix(Stored(s), Stored(s)')]_vars

\* A second request has added its turns after those of a first one.
C1_Witness ==
  \E s \in SessionIds :
    /\ Len(Stored(s)) >= 4
    /\ Stored(s)[1].req # Stored(s)[4].req

\* ----------------------------------------------------------------- C2
\* C2: every successful /chat or /sales_trainer request has appended exactly
\* one user turn and one assistant turn: when its response is sent, the
\* stored history ends with its user turn followed by an assistant turn
\* holding the reply of the response (the summary, for a finalization turn),
\* and holds no other turn of the request.
C2_SuccessAppendsUserAndAssistant ==
  (sent.req.endpoint \in Endpoints /\ sent.response.status = 200) =>
    LET h == Stored(sent.req.session_id)
        n == Len(h)
    IN  /\ n >= 2
        /\ h[n - 1] = HumanMessage(sent.req.message, sent.req.id)
        /\ h[n] = AIMessage(sent.response.body.reply, sent.req.id)
        /\ \A i \in 1..(n - 2) : h[i].req # sent.req.id

\* ----------------------------------------------------------------- C3
\* A message that is "done" once surrounding whitespace is trimmed and
\* letters are lower-cased: whitespace, then d o n e in either case, then
\* whitespace, and nothing else.
TrimsToDone(m) ==
  \E a \in 0..Len(m) :
    /\ a + 4 <= Len(m)
    /\ \A k \in 1..a : m[k] \in Whitespace
    /\ m[a + 1] \in {"d", "D"}
    /\ m[a + 2] \in {"o", "O"}
    /\ m[a + 3] \in {"n", "N"}
    /\ m[a + 4] \in {"e", "E"}
    /\ \A k \in (a + 5)..Len(m) : m[k] \in Whitespace

\* C3: a request is handled in finalization mode (it reaches the summary
\* call) exactly when its message trims and lower-cases to "done"; any other
\* message, also one that contains "done", is handled as a collection turn
\* (it reaches the collection call).
C3_FinalizationIffDone ==
  \A t \in Threads :
    /\ pc[t] = "invoke_summary" => TrimsToDone(req[t].message)
    /\ pc[t] \in {"invoke_convo", "add_reply"} => ~TrimsToDone(req[t].message)

\* A padded upper-case "done" is at the summary call, after a message that
\* contains "done" was answered as a collection turn.
C3_Witness ==
  \E t \in Threads :
    /\ pc[t] = "invoke_summary"
    /\ req[t].message = <<" ", "D", "o", "N", "E", "\n">>
    /\ Len(PromptHistory(t)) = 3
    /\ PromptHistory(t)[1].content = <<"n", "o", "t", " ", "d", "o", "n", "e">>
    /\ PromptHistory(t)[2].role = "assistant"

\* ----------------------------------------------------------------- C4
\* C4: after a reset of a session id, the history a later message for that
\* id replays into its prompt holds no turn recorded before the reset; for the
\* next message after the reset it is that message's user turn alone.
C4_ResetForgetsHistory ==
  \A t \in Threads :
    AtLlmCall(t) =>
      LET s == req[t].session_id
          r == req[t].id
          reset == LastReset(s, r)
      IN  /\ \A i \in 1..Len(PromptHistory(t)) : PromptHistory(t)[i].req > reset
          /\ (reset > 0 /\ MessagesBetween(s, reset, r) = {}) =>
               PromptHistory(t) = <<HumanMessage(req[t].message, r)>>

\* A message is at its LLM call right after a reset that deleted the history
\* an earlier message had made.
C4_Witness ==
  \E t \in Threads :
    /\ AtLlmCall(t)
    /\ LastReset(req[t].session_id, req[t].id) > 1
    /\ MessagesBetween(req[t].session_id, 0,
                       LastReset(req[t].session_id, req[t].id)) # {}
    /\ MessagesBetween(req[t].session_id,
                       LastReset(req[t].session_id, req[t].id), req[t].id) = {}
    /\ Len(heap) = 2

\* ----------------------------------------------------------------- C5
\* C5: a reset always ends with the success status and leaves no entry for
\* its session id; a reset of an id that has no entry changes nothing in the
\* store, so a second reset in a row leaves the store as the first left it.
C5_ResetIdempotent ==
  [][\A t \in Threads :
       (req[t].endpoint = "reset" /\ Ends(t)) =>
         /\ sent'.response.status = 200
         /\ sent'.response.body = Status(req[t].session_id)
         /\ ~Has(sessions', req[t].session_id)
         /\ \A s \in SessionIds \ {req[t].session_id} : Stored(s)' = Stored(s)
         /\ ~Has(sessions, req[t].session_id) => sessions' = sessions
         /\ heap' = heap]_vars

\* The second of two resets in a row, after a message, has answered.
C5_Witness ==
  /\ sent.req.endpoint = "reset"
  /\ sent.req.id = 3
  /\ sent.response.status = 200
  /\ arrivals[1] = [session_id |-> sent.req.session_id, kind |-> "message"]
  /\ arrivals[2] = [session_id |-> sent.req.session_id, kind |-> "reset"]
  /\ sessions = [x \in {} |-> 0]

\* ----------------------------------------------------------------- C6
IsUser(m) == m.role = "user"

\* The requests whose user turns history h holds, in the order of h.
UserRequests(h) ==
  LET u == SelectSeq(h, IsUser) IN [i \in 1..Len(u) |-> u[i].req]

RECURSIVE Ascending(_)
\* The numbers of set S, in ascending order.
Ascending(S) ==
  IF S = {} THEN <<>>
  ELSE LET m == CHOOSE x \in S : \A y \in S : x <= y
       IN  <<m>> \o Ascending(S \ {m})

\* The messages that arrived for session id s since its last reset, in
\* arrival order.
Arrived(s) ==
  Ascending(MessagesBetween(s, LastReset(s, Len(arrivals) + 1),
                            Len(arrivals) + 1))

\* No reset of session id s has arrived.
NeverReset(s) == LastReset(s, Len(arrivals) + 1) = 0

\* C6: for every session id (that was not reset), once the requests for it
\* have been served, the N-th user turn of the stored history is the N-th
\* message that arrived for the id: none is missing and none is out of
\* arrival order.
C6_UserTurnsInArrivalOrder ==
  \A s \in SessionIds :
    (NeverReset(s) /\ Quiet(s)) => UserRequests(Stored(s)) = Arrived(s)

\* ----------------------------------------------------------------- C7
\* Request r is being served.
InFlight(r) == \E t \in Threads : Busy(t) /\ req[t].id = r

\* C7: in every stored history each assistant turn directly follows the user
\* turn of the same request, and the history a request replays into its
\* prompt holds no user turn of another request that is still being served.
C7_TurnsNotInterleaved ==
  /\ \A s \in SessionIds :
       \A i \in 1..Len(Stored(s)) :
         Stored(s)[i].role = "assistant" =>
           /\ i > 1
           /\ Stored(s)[i - 1].role = "user"
           /\ Stored(s)[i - 1].req = Stored(s)[i].req
  /\ \A t \in Threads :
       AtLlmCall(t) =>
         \A i \in 1..Len(PromptHistory(t)) :
           PromptHistory(t)[i].req # req[t].id => ~InFlight(PromptHistory(t)[i].req)

\* ----------------------------------------------------------------- C8
\* This step is an LLM call of worker t that raises.
LlmFails(t) == AtLlmCall(t) /\ Ends(t) /\ sent'.response.cause = "llm"

\* C8: when the LLM call of a turn fails, the caller gets an error (status
\* 500), the stored history of the session ends with the user turn of the
\* request, holds that turn once and no assistant turn of the request, and
\* the step changes no history and no store entry.
C8_LlmFailureKeepsUserTurn ==
  [][\A t \in Threads :
       LlmFails(t) =>
         LET s == req[t].session_id
             h == IF Has(sessions', s) THEN heap'[sessions'[s]] ELSE <<>>
         IN
         /\ sent'.response.status = 500
         /\ sent'.req = req[t]
         /\ Len(h) >= 1
         /\ h[Len(h)] = HumanMessage(req[t].message, req[t].id)
         /\ \A i \in 1..(Len(h) - 1) : h[i].req # req[t].id
         /\ heap' = heap
         /\ sessions' = sessions]_vars

\* The LLM call of the second turn of a session has failed.
C8_Witness ==
  /\ sent.response.status = 500
  /\ sent.response.cause = "llm"
  /\ Len(Stored(sent.req.session_id)) = 3
  /\ Stored(sent.req.session_id)[3].req = sent.req.id

\* ----------------------------------------------------------------- C9
\* C9: every /chat and /sales_trainer request ends with a response that
\* carries a reply string; no failure of a collaborator leaves the handler.
C9_AlwaysAReply ==
  sent.req.endpoint \in Endpoints =>
    /\ sent.response.status = 200
    /\ "reply" \in DOMAIN sent.response.body

\* ----------------------------------------------------------------- C10
\* The image search of this finalization step of worker t yields no image.
ImageFails(t) ==
  /\ pc[t] = "invoke_summary"
  /\ Ends(t)
  /\ sent'.response.cause \in ImageOutcomes \ {"ok"}

\* C10: when the image search of a finalization turn has no credential,
\* raises or finds nothing, the response is still returned with the summary
\* as its reply and image_url null, and the step changes no history and no
\* store entry.
C10_NoImageStillAnswers ==
  [][\A t \in Threads :
       ImageFails(t) =>
         /\ sent'.response.status = 200
         /\ DOMAIN sent'.response.body = {"reply", "image_query", "image_url"}
         /\ sent'.response.body.reply \in {Strip(text) : text \in SummaryTexts}
         /\ sent'.response.body.image_url = None
         /\ heap' = heap
         /\ sessions' = sessions]_vars

\* A finalization whose image search found nothing has answered.
C10_Witness ==
  /\ sent.req.endpoint = "chat"
  /\ sent.response.status = 200
  /\ sent.response.cause = "zero_results"
  /\ sent.response.body.image_url = None

\* ----------------------------------------------------------------- C11
\* Text `text` holds the end-sentinel token.
HasSentinel(text) == \E i \in 1..Len(text) : text[i] = SUMMARY_END_TOKEN

\* C11: the response of a successful /chat finalization carries a
\* parse-failure (error) indicator exactly when the summary text the LLM gave
\* holds no end-sentinel token, and its reply is that text.
C11_MissingSentinelIsFlagged ==
  (sent.req.endpoint = "chat" /\ sent.response.status = 200
     /\ TrimsToDone(sent.req.message)) =>
    /\ sent.response.body.reply \in {Strip(text) : text \in SummaryTexts}
    /\ "error" \in DOMAIN sent.response.body
         <=> ~HasSentinel(sent.response.body.reply)

\* ----------------------------------------------------------------- C12
\* The handler of worker t has recorded its user turn in a history that holds
\* the "done" turn of an earlier request: a finalization turn came before it
\* and no reset since.
FinalizedBefore(t) ==
  /\ pc[t] \in {"invoke_convo", "invoke_summary", "add_reply"}
  /\ \E i \in 1..Len(PromptHistory(t)) :
       /\ IsUser(PromptHistory(t)[i])
       /\ PromptHistory(t)[i].req < req[t].id
       /\ TrimsToDone(PromptHistory(t)[i].content)

\* C12 as stated: after a finalization turn and until a reset, no later
\* message of the session is handled as a collection turn.
C12_NoCollectionAfterFinalization ==
  \A t \in Threads :
    FinalizedBefore(t) => pc[t] \notin {"invoke_convo", "add_reply"}

\* C12: a finalization turn leaves the session open, no mode is stored. A
\* later message of the session, its history still holding the "done" turn,
\* is handled as a collection turn exactly when it does not itself trim and
\* lower-case to "done", and as a finalization turn otherwise.
C12_SessionStaysOpen ==
  \A t \in Threads :
    FinalizedBefore(t) =>
      /\ pc[t] = "invoke_summary" <=> TrimsToDone(req[t].message)
      /\ pc[t] \in {"invoke_convo", "add_reply"}
           <=> ~TrimsToDone(req[t].message)

\* The message after an answered "done" is at the collection call, with the
\* "done" turn and its own turn as the history.
C12_Witness ==
  \E t \in Threads :
    /\ pc[t] = "invoke_convo"
    /\ FinalizedBefore(t)
    /\ Len(PromptHistory(t)) = 2
    /\ TrimsToDone(PromptHistory(t)[1].content)
    /\ PromptHistory(t)[2] = HumanMessage(req[t].message, req[t].id)

\* ----------------------------------------------------------------- C13
\* Between requests for session id s, the id has an entry exactly when a
\* message has arrived for it since its last reset.
EntryIffMessaged(s) ==
  Quiet(s) =>
    (Has(sessions, s) <=>
       MessagesBetween(s, LastReset(s, Len(arrivals) + 1), Len(arrivals) + 1) # {})

\* C13: when the requests for one session id come one after the other, the
\* id is, after every step, in the store exactly when a message for it has
\* been received since its last reset (or start-up, where the store is
\* empty); a step that adds the entry is the creation
\* by the first such message, a step that removes it is a step of a reset of
\* that id, and every other step leaves the entry as it is.
C13_EntryIffMessageSinceReset ==
  [][\A s \in SessionIds :
       /\ EntryIffMessaged(s)'
       /\ (~Has(sessions, s) /\ Has(sessions', s)) =>
            \E t \in Threads :
              /\ pc[t] = "get_session_create" /\ pc'[t] # pc[t]
              /\ req[t].endpoint \in Endpoints
              /\ req[t].session_id = s
              /\ MessagesBetween(s, LastReset(s, req[t].id), req[t].id) = {}
       /\ (Has(sessions, s) /\ ~Has(sessions', s)) => ResetStep(s)
       /\ (Has(sessions, s) /\ Has(sessions', s)) => sessions'[s] = sessions[s]
    ]_vars

\* Two ids had a message each and one of them was then reset: the other is
\* still in the store, the reset one is not.
C13_Witness ==
  \E s \in SessionIds, o \in SessionIds :
    /\ o # s
    /\ arrivals = <<[session_id |-> s, kind |-> "message"],
                    [session_id |-> o, kind |-> "message"],
                    [session_id |-> s, kind |-> "reset"]>>
    /\ \A t \in Threads : ~Busy(t)
    /\ ~Has(sessions, s)
    /\ Has(sessions, o)
    /\ Len(Stored(o)) > 0

\* ----------------------------------------------------------------- C14
\* The /chat or /sales_trainer handler of worker t has fetched its session
\* and not yet answered, and reset d has deleted the store entry of that
\* session meanwhile.
ResetWhileInFlight(t, d) ==
  /\ req[t].endpoint \in Endpoints
  /\ pc[t] \in {"add_user_message", "invoke_convo", "invoke_summary", "add_reply"}
  /\ d \in deleted
  /\ d.memory = memory[t]

\* History h holds turns of requests that arrived after request r only, and
\* none of request a.
OnlyAfter(h, r, a) == \A i \in 1..Len(h) : h[i].req > r /\ h[i].req # a

\* C14: when a reset has deleted the session a request in flight had fetched,
\* the history the store then has for that id, before and after any further
\* step, holds no turn of the request in flight and only turns of requests
\* that arrived after the reset.
C14_ResetDoesNotLeak ==
  [][\A t \in Threads, d \in deleted, s \in SessionIds :
       (ResetWhileInFlight(t, d) /\ req[t].session_id = s) =>
         /\ OnlyAfter(Stored(s), d.reset, req[t].id)
         /\ OnlyAfter(Stored(s)', d.reset, req[t].id)]_vars

\* ----------------------------------------------------------------- C15
\* This step is a step of a request for session id a: its arrival or a
\* statement of its handler.
StepOf(a) ==
  \E t \in Threads :
    /\ pc'[t] # pc[t]
    /\ IF Busy(t) THEN req[t].session_id = a ELSE req'[t].session_id = a

\* C15: in every interleaving, a step of a /chat, /sales_trainer or /reset
\* request for one session id leaves the store entry and the history of
\* every other session id as they were.
C15_OtherSessionsUntouched ==
  [][\A a \in SessionIds, b \in SessionIds :
       (StepOf(a) /\ b # a) =>
         /\ Has(sessions', b) <=> Has(sessions, b)
         /\ Has(sessions, b) => sessions'[b] = sessions[b]
         /\ Stored(b)' = Stored(b)]_vars

\* A reset has just deleted the entry of one id while a request for another
\* id, whose history holds a turn, is at its LLM call.
C15_Witness ==
  \E t \in Threads :
    /\ sent.req.endpoint = "reset"
    /\ sent.response.cause = "deleted"
    /\ AtLlmCall(t)
    /\ req[t].session_id # sent.req.session_id
    /\ Has(sessions, req[t].session_id)
    /\ Len(Stored(req[t].session_id)) > 0
    /\ ~Has(sessions, sent.req.session_id)

\* ----------------------------------------------------------------- C16
\* The endpoint that received message i, for a client that alternates.
EndpointAt(i) == EndpointOf(MessageNumber(i))

\* History h holds the user turn of request i.
HoldsTurnOf(h, i) == \E k \in 1..Len(h) : IsUser(h[k]) /\ h[k].req = i

\* C16: for a client that alternates the endpoints on one session id, the
\* history a request replays into its prompt holds the user turn of an
\* earlier message received by the other endpoint exactly when no reset of
\* the id came between the two: both endpoints read and write one store
\* entry, and one reset clears it for both.
C16_EndpointsShareHistory ==
  \A t \in Threads :
    AtLlmCall(t) =>
      LET s == req[t].session_id
          r == req[t].id
      IN  /\ req[t].endpoint = EndpointAt(r)
          /\ \A i \in MessagesBetween(s, 0, r) :
               EndpointAt(i) # req[t].endpoint =>
                 (HoldsTurnOf(PromptHistory(t), i) <=> i > LastReset(s, r))

\* A /sales_trainer request is at its LLM call with the turns of the /chat
\* request before it in its history.
C16_Witness ==
  \E t \in Threads :
    /\ AtLlmCall(t)
    /\ req[t].endpoint = "sales_trainer"
    /\ req[t].id = 2
    /\ EndpointAt(1) = "chat"
    /\ Len(PromptHistory(t)) = 3
    /\ PromptHistory(t)[1].req = 1
    /\ PromptHistory(t)[2].role = "assistant"
    /\ PromptHistory(t)[3] = HumanMessage(req[t].message, 2)

====
